---- MODULE Spec2Model ----
(***************************************************************************)
(* A model of the investment-analysis pipeline: the four agent nodes       *)
(* (src/src/graph/nodes.py), the compiled LangGraph workflow that runs     *)
(* them (src/src/graph/workflow.py, src/src/graph/state.py) and the        *)
(* full-pipeline entry point that builds the response (src/main.py,        *)
(* src/src/core/models.py).                                                *)
(*                                                                         *)
(* Conventions.  A Python str is a sequence of tokens (TLA+ strings); the  *)
(* empty str is << >>.  Non-ASCII literals of the source are written in    *)
(* ASCII: "HOLD" is the label chi-you of nodes.py:241, "BUY" is mai-ru,    *)
(* "FIN_FAILED: " is the prefix of nodes.py:62, and so on.  A dict is a    *)
(* function from its keys; {} is the function with the empty domain.  A    *)
(* JSON / Python value of varying type is a tagged record (see JNum..).    *)
(* Numbers are held in hundredths (8 is 800, 180.5 is 18050).              *)
(***************************************************************************)
EXTENDS Integers, Sequences, FiniteSets, TLC

VARIABLES
    pc,         \* position of analyze_stock: "running", "returned", "raised", "done"
    agg,        \* the AgentState channels of the running workflow
    active,     \* nodes scheduled in the current superstep
    pending,    \* results of the nodes that finished in the current superstep
    step,       \* number of the current superstep
    reply,      \* what analyze_stock hands back (status 0 while running)
    calls,      \* log: what the collaborators answered to each node's latest run
    writes,     \* log: how many node writes were merged into each field
    merged,     \* log: nodes whose partial update has been merged
    request,    \* the AnalysisRequest analyze_stock was called with
    registry,   \* the node function registered under each node name
    env,        \* the collaborators the run is wired to (see AnyEnv)
    rag,        \* the global RAGRetriever: _initialized, the store, query log
    alarm,      \* the SIGALRM timer of the process: "off" or "armed"
    cancelled,  \* the step at which the server cancelled the request task, or 0
    sup_in,     \* supervisor harness: the generation outcome fed to the node
    sup_out,    \* supervisor harness: what supervisor_agent_node gave back
    price_in,   \* validator harness: the value assigned to target_price
    price_out,  \* validator harness: what parse_price gave back
    rag_call    \* retriever harness: the last call on the retriever, its result

\* the variables of a pipeline run, and those of the harnesses that call one
\* function on its own
pipeline == <<pc, agg, active, pending, step, reply, calls, writes, merged,
              request, registry, env, rag, alarm, cancelled>>
harness  == <<sup_in, sup_out, price_in, price_out, rag_call>>

vars == <<pipeline, harness>>

-----------------------------------------------------------------------------
(* Bounds *)

\* longest generated text, in tokens, fed to the supervisor harness
MaxTextLen == 5

\* longest price text, in characters, fed to the validator harness
MaxPriceLen == 5

-----------------------------------------------------------------------------
(* Values *)

\* round(result, 2): prices and scores are held as integers in 10^-Decimals
Decimals == 2
Scale == 10 ^ Decimals

EmptyStr  == << >>
EmptyDict == [k \in {} |-> << >>]

JNull      == [t |-> "null", n |-> 0, s |-> << >>]
JNum(x)    == [t |-> "num",  n |-> x, s |-> << >>]
JStr(x)    == [t |-> "str",  n |-> 0, s |-> x]
JList(x)   == [t |-> "list", n |-> 0, s |-> x]

\* dict.get(key) and dict.get(key, default)
Get(d, k)          == IF k \in DOMAIN d THEN d[k] ELSE JNull
GetOr(d, k, dflt)  == IF k \in DOMAIN d THEN d[k] ELSE dflt

\* the requests of the model: {stock_ticker, query}
Tickers == {"AAPL", "0700.HK"}
Queries == {<<"worth-buying?">>}

\* str(e) of the exceptions the collaborators raise
ExcLLMInit   == "OpenAIError"          \* ChatOpenAI(...) fails in get_llm
ExcLLMInvoke == "APITimeoutError"      \* llm.invoke fails after its retries
ExcJSON      == "JSONDecodeError"      \* json.loads rejects the span
ExcYF        == "YFinanceError"        \* yfinance fails inside a data tool
ExcTimeout   == "TimeoutError"         \* raised by the SIGALRM handler

\* what a generation call can do: get_llm() raises, invoke raises, or text
LLMInitFail   == [kind |-> "init_fail",   text |-> << >>]
LLMInvokeFail == [kind |-> "invoke_fail", text |-> << >>]
LLMText(x)    == [kind |-> "ok",          text |-> x]

\* the alarm handler of financial.py:65-66 raises inside the node's try block
LLMAlarm      == [kind |-> "alarm",       text |-> << >>]

LLMError(llm) == CASE llm.kind = "init_fail" -> ExcLLMInit
                   [] llm.kind = "alarm"     -> ExcTimeout
                   [] OTHER                  -> ExcLLMInvoke

\* ChatOpenAI(..., max_retries=3): after a failed request the client tries
\* again, at most max_retries times
max_retries == 3

\* mutant: the first failed request is handed to the caller
invoke_no_retry(attempt, fails, text) ==
    IF attempt > fails THEN LLMText(text) ELSE LLMInvokeFail

\* llm.invoke(prompt) from request number `attempt` on, when the API fails
\* the first `fails` requests: the text, or the error of the last request
RECURSIVE invoke(_, _, _)
invoke(attempt, fails, text) ==
    IF attempt > fails THEN LLMText(text)
    ELSE IF attempt > max_retries THEN LLMInvokeFail
    ELSE invoke(attempt + 1, fails, text)

\* a generation call: g.init is whether get_llm() returns a client, g.fails
\* how many requests in a row the API fails, g.text what it then answers
generate(g) == IF ~g.init THEN LLMInitFail ELSE invoke(1, g.fails, g.text)

\* what a node function hands to the executor: a partial update, or an
\* exception that leaves the function
Return(u) == [raised |-> FALSE, exc |-> "", update |-> u]
Raise(e)  == [raised |-> TRUE,  exc |-> e,  update |-> EmptyDict]

-----------------------------------------------------------------------------
(* Structured-data collaborators.  `fetch` is what the data source did. *)

FetchOutcomes == {"ok", "nodata", "fail"}

\* _fetch_yfinance_data, financial.py:58-80.  The first read of stock.info
\* returns in time, raises, or is still running when the timer expires; the
\* function runs in the main thread or (where signal.signal raises) not.
InfoOutcomes == {"ok", "raises", "timeout"}
Threads      == {"main", "worker"}

\* the timer of the process after lines 69-76, given the timer before:
\* outside the main thread nothing is armed; alarm(0) follows a read that
\* returned; a timer that expired is gone; after a read that raised the bare
\* except reads again and alarm(0) is not reached
read_info(timer, thread, info) ==
    CASE thread # "main"  -> timer
      [] info = "ok"      -> "off"
      [] info = "timeout" -> "off"
      [] OTHER            -> "armed"

\* tools/financial.py: the result never holds the keys 'data' or 'rag_context'
get_financial_data(stock_ticker, fetch) ==
    IF fetch = "fail"
    THEN [stock_ticker |-> stock_ticker, error |-> ExcYF, success |-> "False"]
    ELSE [stock_ticker |-> stock_ticker,
          real_time_data |-> IF fetch = "ok" THEN "statements" ELSE "error",
          data_source |-> "Yahoo Finance", timestamp |-> "now",
          success |-> IF fetch = "ok" THEN "True" ELSE "False"]

\* tools/market.py: an empty history and any exception both come back as a
\* mapping with an error entry; nothing is raised
get_market_data(stock_ticker, fetch) ==
    CASE fetch = "ok" ->
           [stock_ticker |-> stock_ticker, current_price |-> "price",
            currency |-> "USD", timestamp |-> "now", success |-> "True"]
      [] fetch = "nodata" ->
           [error |-> "NO_MARKET_DATA", success |-> "False"]
      [] OTHER ->
           [stock_ticker |-> stock_ticker, error |-> ExcYF, success |-> "False"]

\* tools/valuation.py, method = "PE" (the node passes no method)
calculate_valuation(stock_ticker, fetch) ==
    IF fetch = "ok"
    THEN [method |-> "PE", current_pe |-> "pe", industry_avg_pe |-> "avg_pe",
          target_price |-> "price", reasoning |-> "industry-average PE",
          stock_ticker |-> stock_ticker, valuation_date |-> "2024-01-15",
          success |-> "True"]
    ELSE [stock_ticker |-> stock_ticker, method |-> "PE", error |-> ExcYF,
          success |-> "False"]

-----------------------------------------------------------------------------
(* The three analyst nodes (nodes.py:10-171).  Each is a try block (the      *)
(* _try operator) wrapped by its except clause.                             *)

financial_try(state, fetch, llm) ==
    LET financial_data == get_financial_data(state.stock_ticker, fetch)
    IN  IF llm.kind # "ok"
        THEN Raise(LLMError(llm))
        ELSE Return(("financial_analysis" :> llm.text) @@
                    ("rag_context" :> GetOr(financial_data, "rag_context", EmptyStr)))

financial_agent_node(state, fetch, llm) ==
    LET r == financial_try(state, fetch, llm)
    IN  IF r.raised
        THEN Return(("financial_analysis" :> <<"FIN_FAILED: ", r.exc>>) @@
                    ("rag_context" :> EmptyStr))
        ELSE r

market_try(state, fetch, llm) ==
    LET market_data == get_market_data(state.stock_ticker, fetch)
    IN  IF llm.kind # "ok"
        THEN Raise(LLMError(llm))
        ELSE Return(("market_analysis" :> llm.text) @@
                    ("market_data" :> market_data))

\* mutant: the except clause also clears the shared retrieval context
market_agent_node_clearing(state, fetch, llm) ==
    LET r == market_try(state, fetch, llm)
    IN  IF r.raised
        THEN Return(("market_analysis" :> <<"MKT_FAILED: ", r.exc>>) @@
                    ("market_data" :> EmptyDict) @@
                    ("rag_context" :> EmptyStr))
        ELSE r

market_agent_node(state, fetch, llm) ==
    LET r == market_try(state, fetch, llm)
    IN  IF r.raised
        THEN Return(("market_analysis" :> <<"MKT_FAILED: ", r.exc>>) @@
                    ("market_data" :> EmptyDict))
        ELSE r

valuation_try(state, fetch, llm) ==
    LET valuation_data == calculate_valuation(state.stock_ticker, fetch)
    IN  IF llm.kind # "ok"
        THEN Raise(LLMError(llm))
        ELSE Return(("valuation_analysis" :> llm.text) @@
                    ("valuation_data" :> valuation_data))

valuation_agent_node(state, fetch, llm) ==
    LET r == valuation_try(state, fetch, llm)
    IN  IF r.raised
        THEN Return(("valuation_analysis" :> <<"VAL_FAILED: ", r.exc>>) @@
                    ("valuation_data" :> EmptyDict))
        ELSE r

-----------------------------------------------------------------------------
(* Generated text and the JSON it may embed.                                *)
(* A text is a sequence of tokens: "{" and "}" are the braces, "w" is a     *)
(* word of prose, and a member token is one complete "key": value pair of   *)
(* an object (the comma between two members is implied).                    *)

\* characters of the price "270-285 mei-yuan" of models.py:57
PriceRange == <<"2", "7", "0", "-", "2", "8", "5", "mei", "yuan">>

\* the pair a member token stands for
Member(tok) ==
    CASE tok = "score:8"      -> <<"score", JNum(8 * Scale)>>
      [] tok = "score:11"     -> <<"score", JNum(11 * Scale)>>
      [] tok = "rec:BUY"      -> <<"recommendation", JStr(<<"BUY">>)>>
      [] tok = "tp:180.5"     -> <<"target_price", JNum(18050)>>
      [] tok = "tp:range"     -> <<"target_price", JStr(PriceRange)>>
      [] tok = "sl:150.0"     -> <<"stop_loss", JNum(15000)>>
      [] tok = "reasoning:r"  -> <<"reasoning", JStr(<<"because">>)>>
      [] tok = "risks:[r]"    -> <<"risks", JList(<<"risk1">>)>>
      [] tok = "risks:str"    -> <<"risks", JStr(<<"high">>)>>
      [] tok = "opps:[o]"     -> <<"opportunities", JList(<<"opp1">>)>>

MemberTokens == {"score:8", "score:11", "rec:BUY", "tp:180.5", "tp:range",
                 "sl:150.0", "reasoning:r", "risks:[r]", "risks:str", "opps:[o]"}

\* positions of a token in a text
Positions(text, tok) == {i \in 1..Len(text) : text[i] = tok}

Min(S) == CHOOSE x \in S : \A y \in S : x <= y
Max(S) == CHOOSE x \in S : \A y \in S : x >= y

\* re.search(r'\{[\s\S]*\}', response): the leftmost "{" that has a "}"
\* after it, and (the star is greedy) the last "}" of the text
json_match(response) ==
    LET opens  == Positions(response, "{")
        closes == Positions(response, "}")
    IN  IF opens # {} /\ closes # {} /\ Min(opens) < Max(closes)
        THEN [found |-> TRUE,  from |-> Min(opens), to |-> Max(closes)]
        ELSE [found |-> FALSE, from |-> 0, to |-> 0]

\* json_match.group()
group(response, m) == SubSeq(response, m.from, m.to)

\* json.loads accepts the span iff it is one object: braces around members
json_valid(span) ==
    /\ Len(span) >= 2
    /\ span[1] = "{"
    /\ span[Len(span)] = "}"
    /\ \A i \in 2..(Len(span) - 1) : span[i] \in MemberTokens

\* json.loads of a valid span: a dict; a repeated key keeps its last value
json_loads(span) ==
    LET keys == {Member(span[i])[1] : i \in 2..(Len(span) - 1)}
        last(k) == Max({i \in 2..(Len(span) - 1) : Member(span[i])[1] = k})
    IN  [k \in keys |-> Member(span[last(k)])[2]]

-----------------------------------------------------------------------------
(* The supervisor node (nodes.py:174-266) *)

\* mutant: the raw text is cut to its first token before it is stored
no_match_recommendation_truncated(response) ==
    [score |-> JNum(5 * Scale), recommendation |-> JStr(<<"HOLD">>),
     target_price |-> JNull, stop_loss |-> JNull,
     reasoning |-> JStr(IF Len(response) > 1 THEN <<response[1]>> ELSE response),
     risks |-> JList(<<"PARSE_FAILED">>), opportunities |-> JList(<< >>)]

\* mutant: the default structure is built with an empty risks list
no_match_recommendation_no_risk(response) ==
    [score |-> JNum(5 * Scale), recommendation |-> JStr(<<"HOLD">>),
     target_price |-> JNull, stop_loss |-> JNull,
     reasoning |-> JStr(response),
     risks |-> JList(<< >>), opportunities |-> JList(<< >>)]

\* nodes.py:239-247, the structure built when the text holds no match
no_match_recommendation(response) ==
    [score |-> JNum(5 * Scale), recommendation |-> JStr(<<"HOLD">>),
     target_price |-> JNull, stop_loss |-> JNull,
     reasoning |-> JStr(response),
     risks |-> JList(<<"PARSE_FAILED">>), opportunities |-> JList(<< >>)]

\* nodes.py:259-265, the structure built by the except clause
except_recommendation(exc) ==
    [score |-> JNum(5 * Scale), recommendation |-> JStr(<<"HOLD">>),
     reasoning |-> JStr(<<"ANALYSIS_FAILED: ", exc>>),
     risks |-> JList(<<"ANALYSIS_FAILED">>), opportunities |-> JList(<< >>)]

supervisor_try(state, llm) ==
    IF llm.kind # "ok"
    THEN Raise(LLMError(llm))
    ELSE LET response   == llm.text
             m          == json_match(response)
         IN  IF m.found
             THEN IF json_valid(group(response, m))
                  THEN Return("final_recommendation" :>
                                  json_loads(group(response, m)))
                  ELSE Raise(ExcJSON)
             ELSE Return("final_recommendation" :>
                             no_match_recommendation(response))

supervisor_agent_node(state, llm) ==
    LET r == supervisor_try(state, llm)
    IN  IF r.raised
        THEN Return("final_recommendation" :> except_recommendation(r.exc))
        ELSE r

-----------------------------------------------------------------------------
(* AnalysisResponse (models.py:28-115) *)

\* the characters the substitution of models.py:84-88 removes: the currency
\* signs and unit words (mei yuan $ yen euro pound ren min bi gang ri han),
\* the letters of USD HKD CNY JPY KRW, and white space
CurrencyChars == {"mei", "yuan", "$", "yen", "euro", "pound", "ren", "min",
                  "bi", "gang", "ri", "han", "U", "S", "D", "H", "K", "C",
                  "N", "Y", "J", "P", "R", "W", " "}

Digits   == <<"0", "1", "2", "3", "4", "5", "6", "7", "8", "9">>
DigitSet == {Digits[i] : i \in 1..10}
DigitVal(c) == (CHOOSE i \in 1..10 : Digits[i] = c) - 1

\* re.sub(class, '', v)
RECURSIVE cleaned(_)
cleaned(v) ==
    IF v = << >> THEN << >>
    ELSE IF Head(v) \in CurrencyChars THEN cleaned(Tail(v))
    ELSE <<Head(v)>> \o cleaned(Tail(v))

\* last position of the run of digits that starts at i (i - 1 when empty)
RunEnd(str, i) ==
    Max({j \in (i - 1)..Len(str) : \A m \in i..j : str[m] \in DigitSet})

\* re.findall(r'\d+\.?\d*', str) from position i on
RECURSIVE findall(_, _)
findall(str, i) ==
    IF i > Len(str) THEN << >>
    ELSE IF str[i] \notin DigitSet THEN findall(str, i + 1)
    ELSE LET j == RunEnd(str, i)
             k == IF j + 1 <= Len(str) /\ str[j + 1] = "."
                  THEN RunEnd(str, j + 2)
                  ELSE j
         IN  <<SubSeq(str, i, k)>> \o findall(str, k + 1)

\* the integer a run of digits writes
RECURSIVE DigitsValue(_)
DigitsValue(ds) ==
    IF ds = << >> THEN 0
    ELSE 10 * DigitsValue(SubSeq(ds, 1, Len(ds) - 1)) + DigitVal(ds[Len(ds)])

\* float(n) as numerator over a power of ten
FloatOf(n) ==
    LET dot  == Positions(n, ".")
        ip   == IF dot = {} THEN n ELSE SubSeq(n, 1, Min(dot) - 1)
        fp   == IF dot = {} THEN << >> ELSE SubSeq(n, Min(dot) + 1, Len(n))
    IN  [num |-> DigitsValue(ip \o fp), den |-> 10 ^ Len(fp)]

RECURSIVE SumOver(_, _)
SumOver(nums, den) ==
    IF nums = << >> THEN 0
    ELSE (Head(nums).num * (den \div Head(nums).den)) + SumOver(Tail(nums), den)

\* mutant: the mean is cut after two decimals instead of rounded
mean_truncated(nums) ==
    LET den   == Max({nums[i].den : i \in 1..Len(nums)})
        total == SumOver(nums, den) * Scale
        by    == den * Len(nums)
    IN  {total \div by}

\* round(sum(nums) / len(nums), 2), in hundredths.  The quotient is exact
\* here; when it lies exactly half way between two hundredths the float the
\* source rounds may sit on either side, so both neighbours are possible.
mean_rounded(nums) ==
    LET den   == Max({nums[i].den : i \in 1..Len(nums)})
        total == SumOver(nums, den) * Scale
        by    == den * Len(nums)
        q     == total \div by
        r     == total % by
    IN  IF 2 * r < by THEN {q}
        ELSE IF 2 * r > by THEN {q + 1}
        ELSE {q, q + 1}

\* mutant: a text without a number comes back stripped of currency marks
parse_price_stripped(v) ==
    CASE v.t = "null" -> {JNull}
      [] v.t = "num"  -> {JNum(v.n)}
      [] v.t = "str"  ->
           LET numbers == findall(cleaned(v.s), 1)
               nums    == [i \in 1..Len(numbers) |-> FloatOf(numbers[i])]
           IN  IF numbers # << >>
               THEN {JNum(x) : x \in mean_rounded(nums)}
               ELSE {JStr(cleaned(v.s))}
      [] OTHER -> {v}

\* mutant: a number is taken for an amount in hundredths and converted
parse_price_converting(v) ==
    CASE v.t = "null" -> {JNull}
      [] v.t = "num"  -> {JNum(v.n \div Scale)}
      [] v.t = "str"  ->
           LET numbers == findall(cleaned(v.s), 1)
               nums    == [i \in 1..Len(numbers) |-> FloatOf(numbers[i])]
           IN  IF numbers # << >>
               THEN {JNum(x) : x \in mean_rounded(nums)}
               ELSE {v}
      [] OTHER -> {v}

\* the validator parse_price: the set of values it can return for v
parse_price(v) ==
    CASE v.t = "null" -> {JNull}
      [] v.t = "num"  -> {JNum(v.n)}
      [] v.t = "str"  ->
           LET numbers == findall(cleaned(v.s), 1)
               nums    == [i \in 1..Len(numbers) |-> FloatOf(numbers[i])]
           IN  IF numbers # << >>
               THEN {JNum(x) : x \in mean_rounded(nums)}
               ELSE {v}
      [] OTHER -> {v}

\* ge=1, le=10 of the score field
ScoreMin == 1
ScoreMax == 10

\* field validation of AnalysisResponse.  Optional[str]; Optional[float]
\* within [1, 10]; Optional[Union[float, str]]; Optional[List[str]]
valid_str(v)   == v.t \in {"null", "str"}
valid_score(v) == \/ v.t = "null"
                  \/ v.t = "num" /\ ScoreMin * Scale <= v.n /\ v.n <= ScoreMax * Scale
valid_price(v) == v.t \in {"null", "num", "str"}
valid_list(v)  == v.t \in {"null", "list"}

\* AnalysisResponse(...) of main.py:176-190 for given validated prices:
\* the model instance, or a ValidationError
AnalysisResponse(stock_ticker, result, final_rec, tp, sl) ==
    IF /\ valid_str(Get(final_rec, "recommendation"))
       /\ valid_score(Get(final_rec, "score"))
       /\ valid_price(tp)
       /\ valid_price(sl)
       /\ valid_str(Get(final_rec, "reasoning"))
       /\ valid_list(Get(final_rec, "risks"))
       /\ valid_list(Get(final_rec, "opportunities"))
    THEN [status |-> 200, detail |-> "",
          body |-> [stock_ticker |-> JStr(<<stock_ticker>>),
                    financial_analysis |-> JStr(result.financial_analysis),
                    market_analysis |-> JStr(result.market_analysis),
                    valuation_analysis |-> JStr(result.valuation_analysis),
                    recommendation |-> Get(final_rec, "recommendation"),
                    score |-> Get(final_rec, "score"),
                    target_price |-> tp,
                    stop_loss |-> sl,
                    reasoning |-> Get(final_rec, "reasoning"),
                    risks |-> Get(final_rec, "risks"),
                    opportunities |-> Get(final_rec, "opportunities")]]
    ELSE [status |-> 500, detail |-> "ValidationError", body |-> EmptyDict]

-----------------------------------------------------------------------------
(* The workflow (workflow.py:12-56) and its state schema (state.py:6-36) *)

START == "__start__"
END   == "__end__"

Analysts == {"financial_agent", "market_agent", "valuation_agent"}
Nodes    == Analysts \cup {"supervisor"}

\* set_entry_point and the add_edge calls of workflow.py:31-50
Edges == {<<START, "financial_agent">>,
          <<"financial_agent", "supervisor">>,
          <<"market_agent", "supervisor">>,
          <<"valuation_agent", "supervisor">>,
          <<"supervisor", END>>,
          <<"financial_agent", "market_agent">>,
          <<"market_agent", "valuation_agent">>}

\* The compiled graph runs in supersteps.  An edge a -> b added with one
\* source schedules b for the superstep after each superstep in which a ran;
\* a node with several such incoming edges does not wait for all of them.
\* The nodes of one superstep read the same channel values, and their
\* writes are applied together when all of them have finished.

\* channels declared without a reducer hold the last value written and take
\* one write per superstep; messages is declared Annotated[..., add]
ExclusiveFields == {"financial_analysis", "market_analysis",
                    "valuation_analysis", "rag_context", "market_data",
                    "valuation_data", "final_recommendation"}

\* main.py:152-165
initial_state(stock_ticker, query) ==
    [stock_ticker |-> stock_ticker, query |-> query, messages |-> << >>,
     financial_analysis |-> EmptyStr, market_analysis |-> EmptyStr,
     valuation_analysis |-> EmptyStr, rag_context |-> EmptyStr,
     market_data |-> EmptyDict, valuation_data |-> EmptyDict,
     final_recommendation |-> EmptyDict, next_agent |-> EmptyStr,
     iteration_count |-> 0]

\* mutant: the completion of valuation_agent does not schedule supervisor
Triggered_without_last(ran) ==
    {e[2] : e \in {d \in Edges : /\ d[1] \in ran
                                 /\ d # <<"valuation_agent", "supervisor">>}}
        \ {END}

\* the nodes an edge leads to from one of the nodes that just ran
Triggered(ran) == {e[2] : e \in {d \in Edges : d[1] \in ran}} \ {END}

\* two nodes of one superstep write the same last-value channel
InvalidUpdate(results) ==
    \E n1, n2 \in DOMAIN results :
        /\ n1 # n2
        /\ DOMAIN results[n1].update \cap DOMAIN results[n2].update
               \cap ExclusiveFields # {}

\* the nodes of the superstep that write field k
Writers(results, k) == {n \in DOMAIN results : k \in DOMAIN results[n].update}

\* mutant: every superstep counts one iteration
ApplyWrites_counting(state, results) ==
    [k \in DOMAIN state |->
        IF Writers(results, k) # {}
        THEN results[CHOOSE n \in Writers(results, k) : TRUE].update[k]
        ELSE IF k = "iteration_count" THEN state[k] + 1
        ELSE state[k]]

\* the channels after the writes of one superstep have been applied
ApplyWrites(state, results) ==
    [k \in DOMAIN state |->
        IF Writers(results, k) # {}
        THEN results[CHOOSE n \in Writers(results, k) : TRUE].update[k]
        ELSE state[k]]

\* generated texts the pipeline is run on: prose only; a well-formed object
\* inside prose; an object whose score is out of range; braces around prose;
\* the empty object; an object whose risks is a string
AnalysisTexts   == {<<"analysis">>}
SupervisorTexts ==
    {<<"w">>,
     <<"w", "{", "score:8", "rec:BUY", "tp:range", "risks:[r]", "}", "w">>,
     <<"{", "score:11", "rec:BUY", "}">>,
     <<"{", "w", "}">>,
     <<"{", "}">>,
     <<"{", "score:8", "risks:str", "}">>}

LLMOutcomes(texts) == {LLMInitFail, LLMInvokeFail} \cup {LLMText(x) : x \in texts}

\* workflow.add_node(name, function), workflow.py:25-28
Registry == [financial_agent |-> "financial_agent_node",
             market_agent    |-> "market_agent_node",
             valuation_agent |-> "valuation_agent_node",
             supervisor      |-> "supervisor_agent_node"]

\* the call of a registered node function
Call(fn, state, fetch, llm) ==
    CASE fn = "financial_agent_node" -> financial_agent_node(state, fetch, llm)
      [] fn = "market_agent_node"    -> market_agent_node(state, fetch, llm)
      [] fn = "valuation_agent_node" -> valuation_agent_node(state, fetch, llm)
      [] OTHER                       -> supervisor_agent_node(state, llm)

\* what the data tool the function calls first hands back to it
Data(fn, stock_ticker, fetch) ==
    CASE fn = "financial_agent_node" -> get_financial_data(stock_ticker, fetch)
      [] fn = "market_agent_node"    -> get_market_data(stock_ticker, fetch)
      [] fn = "valuation_agent_node" -> calculate_valuation(stock_ticker, fetch)
      [] OTHER                       -> EmptyDict

\* The environment of a run.  kind "any": every collaborator call may do
\* anything (a generation call fails in get_llm, fails all its requests, or
\* answers one of the texts).  kind "retry": the data tools work and each
\* generation call fails any number of requests before it answers.  kind
\* "mock": the collaborators are test doubles with fixed answers, the data
\* tool and generation of an analyst by node name (fetch, gen), the
\* generation of the supervisor by its prompt (sup).
AnyEnv   == [kind |-> "any",   fetch |-> EmptyDict, gen |-> EmptyDict, sup |-> EmptyDict]
RetryEnv == [kind |-> "retry", fetch |-> EmptyDict, gen |-> EmptyDict, sup |-> EmptyDict]

GenInitFail   == [init |-> FALSE, fails |-> 0, text |-> EmptyStr]
GenInvokeFail == [init |-> TRUE, fails |-> max_retries + 1, text |-> EmptyStr]
GenText(x)    == [init |-> TRUE, fails |-> 0, text |-> x]

\* a generated text with a well-formed object inside prose
GoodText == <<"w", "{", "score:8", "rec:BUY", "tp:range", "risks:[r]", "}", "w">>

TextsOf(fn) == IF fn = "supervisor_agent_node" THEN SupervisorTexts
               ELSE AnalysisTexts

\* the supervisor prompt (nodes.py:192-225) differs by the analyses it is
\* built from; the double answers by how many of them are present
SupKey(state) ==
    Cardinality({k \in {"financial_analysis", "market_analysis",
                        "valuation_analysis"} : state[k] # EmptyStr})

FetchChoices(n, fn) ==
    CASE fn = "supervisor_agent_node" -> {"none"}
      [] env.kind = "mock"            -> {env.fetch[n]}
      [] env.kind = "retry"           -> {"ok"}
      [] fn = "valuation_agent_node"  -> {"ok", "fail"}
      [] OTHER                        -> FetchOutcomes

GenChoices(n, fn, state) ==
    CASE env.kind = "mock" ->
           {IF fn = "supervisor_agent_node" THEN env.sup[SupKey(state)]
            ELSE env.gen[n]}
      [] env.kind = "retry" ->
           {[init |-> TRUE, fails |-> f,
             text |-> IF fn = "supervisor_agent_node" THEN GoodText
                      ELSE <<"analysis">>] : f \in 0..(max_retries + 1)}
      [] OTHER ->
           {GenInitFail, GenInvokeFail} \cup {GenText(x) : x \in TextsOf(fn)}

\* the document chunks a vector store can hold
Docs == {"chunk1", "chunk2"}

\* the retriever after a start-up that found reports: initialize() has
\* succeeded, the store holds chunks, query() has not been called
RagLoaded == [initialized |-> TRUE, docs |-> Docs, queries |-> 0]

\* retriever.py:13-18: the retriever as constructed
RagNew == [initialized |-> FALSE, docs |-> {}, queries |-> 0]

\* the order in which the similarity search ranks the chunks
Ranking == <<"chunk1", "chunk2">>

\* retriever.py:146-150: the k best-ranked chunks of the store
similarity_search(docs, k) ==
    LET ranked == SelectSeq(Ranking, LAMBDA d : d \in docs)
    IN  SubSeq(ranked, 1, Min({k, Len(ranked)}))

\* what the embedding model and the vector store do during initialize()
InitializeOutcomes == {"embeddings_fail", "store_fail", "ok", "count_fail"}

\* retriever.py:20-71: the retriever after initialize(), and whether the call
\* raised.  _initialized is set before the final count of the collection.
initialize(r, outcome, found) ==
    CASE outcome \in {"embeddings_fail", "store_fail"} ->
           [rag |-> r, result |-> Raise(outcome)]
      [] outcome = "ok" ->
           [rag |-> [r EXCEPT !.initialized = TRUE, !.docs = found],
            result |-> Return(EmptyDict)]
      [] outcome = "count_fail" ->
           [rag |-> [r EXCEPT !.initialized = TRUE, !.docs = found],
            result |-> Raise(outcome)]

\* mutant: query without its except clause
query_no_except(r, top_k, search) ==
    IF ~r.initialized THEN Raise("RuntimeError")
    ELSE IF search = "fails" THEN Raise("ChromaError")
    ELSE Return(similarity_search(r.docs, top_k))

\* retriever.py:124-166: the list query() returns, or the exception it raises
query(r, top_k, search) ==
    IF ~r.initialized THEN Raise("RuntimeError")
    ELSE IF search = "fails" THEN Return(<< >>)
    ELSE Return(similarity_search(r.docs, top_k))

\* main.py:296-310: the body of the try block of query_rag
query_rag_try(r, top_k, search) ==
    IF ~r.initialized THEN Raise("503")
    ELSE LET results == query(r, top_k, search)
         IN  IF results.raised THEN results
             ELSE Return([documents |-> results.update,
                          total_results |-> Len(results.update)])

\* main.py:293-312: the response of query_rag; HTTPException is an Exception,
\* so the except clause catches the one raised in the try block as well
query_rag(r, top_k, search) ==
    LET t == query_rag_try(r, top_k, search)
    IN  IF t.raised
        THEN [status |-> 500, detail |-> t.exc, body |-> EmptyDict]
        ELSE [status |-> 200, detail |-> "", body |-> t.update]

\* what the read of stock.info can do in this run of the function fn:
\* _fetch_yfinance_data is reached by the financial node unless yf.Ticker
\* itself raised (fetch "fail")
InfoChoices(fn, fetch) ==
    IF env.kind = "any" /\ fn = "financial_agent_node" /\ fetch # "fail"
    THEN Threads \X InfoOutcomes
    ELSE {<<"main", "ok">>}

TimerAfter(fn, fetch, i) ==
    IF fn = "financial_agent_node" /\ fetch # "fail"
    THEN read_info(alarm, i[1], i[2])
    ELSE alarm

\* analyze_stock has received a request and built the initial state
Requested ==
    \E t \in Tickers, q \in Queries :
        /\ request = [stock_ticker |-> t, query |-> q]
        /\ agg = initial_state(t, q)

NoReply  == [status |-> 0, detail |-> "", body |-> EmptyDict]
NoResult == [done |-> FALSE, result |-> Return(EmptyDict)]
NoPrice  == [done |-> FALSE, value |-> JNull, twice |-> FALSE, again |-> JNull]
NoRagCall == [op |-> "none", initialized |-> FALSE, top_k |-> 0,
              search |-> "none", result |-> Return(EmptyDict)]

Init ==
    /\ pc = "running"
    /\ Requested
    /\ registry = Registry
    /\ env = AnyEnv
    /\ rag = RagLoaded
    /\ alarm = "off"
    /\ cancelled = 0
    /\ active = Triggered({START})
    /\ pending = EmptyDict
    /\ step = 1
    /\ reply = NoReply
    /\ calls = EmptyDict
    /\ writes = [k \in ExclusiveFields |-> 0]
    /\ merged = {}
    /\ sup_in = LLMInitFail
    /\ sup_out = NoResult
    /\ price_in = JNull
    /\ price_out = NoPrice
    /\ rag_call = NoRagCall

\* a scheduled node that has not run in this superstep
Ready(n) == pc = "running" /\ n \in active /\ n \notin DOMAIN pending

\* the result of a node run is handed to the executor and logged
Logged(n, fetch, llm, fails, timer, result) ==
    /\ pending' = pending @@ (n :> result)
    /\ calls' = (n :> [fetch |-> fetch, llm |-> llm, fails |-> fails,
                       data |-> Data(registry[n], agg.stock_ticker, fetch)])
                    @@ calls
    /\ alarm' = timer
    /\ UNCHANGED <<pc, agg, active, step, reply, writes, merged, request,
                   registry, env, rag, cancelled, harness>>

Ran(n, fetch, g, timer, result) ==
    Logged(n, fetch, generate(g), g.fails, timer, result)

\* the executor calls the function registered under n with the channel
\* values of the superstep; the collaborators answer as env allows
RunNode(n) ==
    \E fetch \in FetchChoices(n, registry[n]),
       g \in GenChoices(n, registry[n], agg) :
        \E i \in InfoChoices(registry[n], fetch) :
            Ran(n, fetch, g, TimerAfter(registry[n], fetch, i),
                Call(registry[n], agg, fetch, generate(g)))

FinancialAgent ==
    /\ Ready("financial_agent")
    /\ RunNode("financial_agent")

MarketAgent ==
    /\ Ready("market_agent")
    /\ RunNode("market_agent")

ValuationAgent ==
    /\ Ready("valuation_agent")
    /\ RunNode("valuation_agent")

Supervisor ==
    /\ Ready("supervisor")
    /\ RunNode("supervisor")

\* the end of a superstep: every scheduled node has finished.  An exception
\* of a node, or two writes to one last-value channel, leave invoke as an
\* exception; otherwise the writes are applied and the next nodes scheduled.
Merge ==
    /\ pc = "running"
    /\ active # {}
    /\ DOMAIN pending = active
    /\ IF (\E n \in active : pending[n].raised) \/ InvalidUpdate(pending)
       THEN /\ pc' = "raised"
            /\ UNCHANGED <<agg, active, pending, step, writes, merged>>
       ELSE /\ agg' = ApplyWrites(agg, pending)
            /\ writes' = [k \in ExclusiveFields |->
                             writes[k] + Cardinality(Writers(pending, k))]
            /\ merged' = merged \cup active
            /\ active' = Triggered(active)
            /\ pending' = EmptyDict
            /\ step' = step + 1
            /\ pc' = IF Triggered(active) = {} THEN "returned" ELSE "running"
    /\ UNCHANGED <<reply, calls, request, registry, env, rag, alarm, cancelled,
                   harness>>

\* main.py:171-197: the response is built from the returned state, or the
\* exception becomes the HTTP 500 outcome
Respond ==
    /\ pc \in {"returned", "raised"}
    /\ pc' = "done"
    /\ IF pc = "raised"
       THEN reply' = [status |-> 500, detail |-> "invoke", body |-> EmptyDict]
       ELSE LET final_rec == agg.final_recommendation
            IN  \E tp \in parse_price(Get(final_rec, "target_price")),
                   sl \in parse_price(Get(final_rec, "stop_loss")) :
                    reply' = AnalysisResponse(agg.stock_ticker, agg, final_rec, tp, sl)
    /\ UNCHANGED <<agg, active, pending, step, calls, writes, merged, request,
                   registry, env, rag, alarm, cancelled, harness>>

\* The timer expires while the request is being served: the handler raises
\* TimeoutError in the main thread, wherever that thread is.  Inside the
\* try block of a node the except clause of the node turns it into the
\* degraded update; in the code of the executor, or in analyze_stock after
\* invoke has returned, it ends the request as an exception.
AlarmFires ==
    /\ alarm = "armed"
    /\ \/ /\ pc \in {"running", "returned"}
          /\ pc' = "raised"
          /\ alarm' = "off"
          /\ UNCHANGED <<agg, active, pending, step, reply, calls, writes,
                         merged, request, registry, env, rag, cancelled, harness>>
       \/ \E n \in active \ DOMAIN pending :
             /\ pc = "running"
             /\ \E fetch \in FetchChoices(n, registry[n]) :
                   Logged(n, fetch, LLMAlarm, 0, "off",
                          Call(registry[n], agg, fetch, LLMAlarm))

\* the steps of a run in a process without a pending timer
NextQuiet ==
    \/ FinancialAgent
    \/ MarketAgent
    \/ ValuationAgent
    \/ Supervisor
    \/ Merge
    \/ Respond

Next ==
    \/ NextQuiet
    \/ AlarmFires

Spec == Init /\ [][Next]_vars

\* invoke is a synchronous call of analyze_stock: the executor keeps taking
\* steps while one is possible, and every collaborator call returns or fails
FairSpec == Spec /\ WF_vars(Next)

-----------------------------------------------------------------------------
(* The supervisor node on its own: every generation outcome with a text of  *)
(* at most MaxTextLen tokens over TextAlphabet.                             *)

TextAlphabet == {"{", "}", "w", "score:8", "rec:BUY"}

TextsUpTo(n) == UNION {[1..k -> TextAlphabet] : k \in 0..n}

InitSupervisor ==
    /\ pc = "node"
    /\ Requested
    /\ registry = Registry
    /\ env = AnyEnv
    /\ rag = RagLoaded
    /\ alarm = "off"
    /\ cancelled = 0
    /\ active = {}
    /\ pending = EmptyDict
    /\ step = 0
    /\ reply = NoReply
    /\ calls = EmptyDict
    /\ writes = [k \in ExclusiveFields |-> 0]
    /\ merged = {}
    /\ sup_in \in LLMOutcomes(TextsUpTo(MaxTextLen))
    /\ sup_out = NoResult
    /\ price_in = JNull
    /\ price_out = NoPrice
    /\ rag_call = NoRagCall

SupervisorCall ==
    /\ pc = "node"
    /\ ~sup_out.done
    /\ sup_out' = [done |-> TRUE, result |-> supervisor_agent_node(agg, sup_in)]
    /\ UNCHANGED <<pipeline, sup_in, price_in, price_out, rag_call>>

SpecSupervisor == InitSupervisor /\ [][SupervisorCall]_vars

-----------------------------------------------------------------------------
(* Construction of a workflow whose node table binds one function to two    *)
(* node names, so that two nodes write the fields that function returns.    *)
(* create_investment_workflow builds one fixed table; add_node and compile  *)
(* (workflow.py:25-28, 53) accept any.                                      *)

\* two node names are bound to one function
SharedOwner(reg) == \E n1, n2 \in Nodes : n1 # n2 /\ reg[n1] = reg[n2]

ConflictingRegistries ==
    {[Registry EXCEPT ![n] = Registry[m]] : n \in Nodes, m \in Nodes} \ {Registry}

InitConflict ==
    /\ pc = "building"
    /\ Requested
    /\ registry \in ConflictingRegistries
    /\ env = RetryEnv
    /\ rag = RagLoaded
    /\ alarm = "off"
    /\ cancelled = 0
    /\ active = {}
    /\ pending = EmptyDict
    /\ step = 0
    /\ reply = NoReply
    /\ calls = EmptyDict
    /\ writes = [k \in ExclusiveFields |-> 0]
    /\ merged = {}
    /\ sup_in = LLMInitFail
    /\ sup_out = NoResult
    /\ price_in = JNull
    /\ price_out = NoPrice
    /\ rag_call = NoRagCall

\* workflow.compile() and the start of invoke: the table is not inspected
Compile ==
    /\ pc = "building"
    /\ pc' = "running"
    /\ active' = Triggered({START})
    /\ step' = 1
    /\ UNCHANGED <<agg, pending, reply, calls, writes, merged, request,
                   registry, env, rag, alarm, cancelled, harness>>

NextConflict == Compile \/ NextQuiet

SpecConflict == InitConflict /\ [][NextConflict]_vars

-----------------------------------------------------------------------------
(* The pipeline wired to test doubles: each data tool and each generation   *)
(* call has one fixed answer for the whole run.                             *)

MockSupGens == {GenInvokeFail, GenText(GoodText), GenText(<<"w">>)}

MockEnvs ==
    {[kind |-> "mock", fetch |-> f, gen |-> g, sup |-> r] :
        f \in [Analysts -> {"ok", "fail"}],
        g \in [Analysts -> {GenText(<<"analysis">>), GenInvokeFail}],
        r \in [1..Cardinality(Analysts) -> MockSupGens]}

InitMock ==
    /\ pc = "running"
    /\ Requested
    /\ registry = Registry
    /\ env \in MockEnvs
    /\ rag = RagLoaded
    /\ alarm = "off"
    /\ cancelled = 0
    /\ active = Triggered({START})
    /\ pending = EmptyDict
    /\ step = 1
    /\ reply = NoReply
    /\ calls = EmptyDict
    /\ writes = [k \in ExclusiveFields |-> 0]
    /\ merged = {}
    /\ sup_in = LLMInitFail
    /\ sup_out = NoResult
    /\ price_in = JNull
    /\ price_out = NoPrice
    /\ rag_call = NoRagCall

SpecMock == InitMock /\ [][NextQuiet]_vars

-----------------------------------------------------------------------------
(* The pipeline with working data tools and a generation API that fails     *)
(* any number of requests in a row, from none to more than the client       *)
(* retries, before it answers.                                              *)

InitRetry ==
    /\ pc = "running"
    /\ Requested
    /\ registry = Registry
    /\ env = RetryEnv
    /\ rag = RagLoaded
    /\ alarm = "off"
    /\ cancelled = 0
    /\ active = Triggered({START})
    /\ pending = EmptyDict
    /\ step = 1
    /\ reply = NoReply
    /\ calls = EmptyDict
    /\ writes = [k \in ExclusiveFields |-> 0]
    /\ merged = {}
    /\ sup_in = LLMInitFail
    /\ sup_out = NoResult
    /\ price_in = JNull
    /\ price_out = NoPrice
    /\ rag_call = NoRagCall

SpecRetry == InitRetry /\ [][NextQuiet]_vars

-----------------------------------------------------------------------------
(* The same pipeline when the server cancels the task that serves the       *)
(* request (the client has gone away, or a deadline of the server is over). *)

\* main.py:137-169: analyze_stock is a coroutine without an await: invoke is
\* a synchronous call that is given no deadline, no node reads a
\* cancellation flag, and the cancellation of the task is delivered at the
\* next await only, which the body does not have
CancelRequest ==
    /\ pc = "running"
    /\ cancelled = 0
    /\ cancelled' = step
    /\ UNCHANGED <<pc, agg, active, pending, step, reply, calls, writes, merged,
                   request, registry, env, rag, alarm, harness>>

NextCancel ==
    \/ CancelRequest
    \/ NextQuiet

SpecCancel == InitRetry /\ [][NextCancel]_vars

-----------------------------------------------------------------------------
(* A request served by a process that has served another request before:   *)
(* investment_workflow (workflow.py:59-60) keeps nothing of a run and the    *)
(* aggregate is built anew (main.py:152-165); what the process keeps is its  *)
(* SIGALRM timer, which the earlier request has left off or armed.  The      *)
(* data tools of this request work and its generation API is that of        *)
(* SpecRetry.                                                                *)

InitSecond ==
    /\ pc = "running"
    /\ Requested
    /\ registry = Registry
    /\ env = RetryEnv
    /\ rag = RagLoaded
    /\ alarm \in {"off", "armed"}
    /\ cancelled = 0
    /\ active = Triggered({START})
    /\ pending = EmptyDict
    /\ step = 1
    /\ reply = NoReply
    /\ calls = EmptyDict
    /\ writes = [k \in ExclusiveFields |-> 0]
    /\ merged = {}
    /\ sup_in = LLMInitFail
    /\ sup_out = NoResult
    /\ price_in = JNull
    /\ price_out = NoPrice
    /\ rag_call = NoRagCall

SpecSecond == InitSecond /\ [][Next]_vars

-----------------------------------------------------------------------------
(* The single-node entry points: each builds the empty state for the        *)
(* ticker, calls its own node function and answers with the analysis and    *)
(* the other field of that node.  The process may have served requests      *)
(* before, as in SpecSecond.                                                 *)

\* main.py:221-226, 252-257 and 283-288: the dict an entry point returns
analyze_financial_only(stock_ticker, result) ==
    [stock_ticker |-> stock_ticker,
     analysis     |-> result["financial_analysis"],
     rag_context  |-> GetOr(result, "rag_context", EmptyStr)]

analyze_market_only(stock_ticker, result) ==
    [stock_ticker |-> stock_ticker,
     analysis     |-> result["market_analysis"],
     market_data  |-> GetOr(result, "market_data", EmptyDict)]

analyze_valuation_only(stock_ticker, result) ==
    [stock_ticker   |-> stock_ticker,
     analysis       |-> result["valuation_analysis"],
     valuation_data |-> GetOr(result, "valuation_data", EmptyDict)]

EntryPoint(n, stock_ticker, result) ==
    CASE n = "financial_agent" -> analyze_financial_only(stock_ticker, result)
      [] n = "market_agent"    -> analyze_market_only(stock_ticker, result)
      [] n = "valuation_agent" -> analyze_valuation_only(stock_ticker, result)

InitSingle ==
    /\ pc = "running"
    /\ Requested
    /\ registry = Registry
    /\ env = AnyEnv
    /\ rag = RagLoaded
    /\ alarm \in {"off", "armed"}
    /\ cancelled = 0
    /\ active \in {{n} : n \in Analysts}
    /\ pending = EmptyDict
    /\ step = 1
    /\ reply = NoReply
    /\ calls = EmptyDict
    /\ writes = [k \in ExclusiveFields |-> 0]
    /\ merged = {}
    /\ sup_in = LLMInitFail
    /\ sup_out = NoResult
    /\ price_in = JNull
    /\ price_out = NoPrice
    /\ rag_call = NoRagCall

\* the return statement of the entry point, or its except clause
RespondSingle ==
    /\ \/ /\ pc = "running"
          /\ DOMAIN pending = active
          /\ \E n \in active :
                reply' = IF pending[n].raised
                         THEN [status |-> 500, detail |-> pending[n].exc,
                               body |-> EmptyDict]
                         ELSE [status |-> 200, detail |-> "",
                               body |-> EntryPoint(n, request.stock_ticker,
                                                   pending[n].update)]
       \/ /\ pc = "raised"
          /\ reply' = [status |-> 500, detail |-> ExcTimeout, body |-> EmptyDict]
    /\ pc' = "done"
    /\ UNCHANGED <<agg, active, pending, step, calls, writes, merged, request,
                   registry, env, rag, alarm, cancelled, harness>>

NextSingle ==
    \/ FinancialAgent
    \/ MarketAgent
    \/ ValuationAgent
    \/ RespondSingle
    \/ AlarmFires

SpecSingle == InitSingle /\ [][NextSingle]_vars

-----------------------------------------------------------------------------
(* The validator parse_price on its own: null, numbers, every text of at    *)
(* most MaxPriceLen characters over PriceAlphabet (two digits, the decimal  *)
(* point, a separator, a currency sign, a letter), and the two texts of     *)
(* the docstring.                                                           *)

PriceAlphabet == {"5", "7", ".", ",", "$", "x"}

DollarPrice == <<"$", "2", "8", "0">>

PriceTexts == UNION {[1..k -> PriceAlphabet] : k \in 0..MaxPriceLen}
                  \cup {PriceRange, DollarPrice}

PriceInputs == {JNull, JNum(0), JNum(280 * Scale), JNum(18050)}
                   \cup {JStr(x) : x \in PriceTexts}

InitPrice ==
    /\ pc = "validator"
    /\ Requested
    /\ registry = Registry
    /\ env = AnyEnv
    /\ rag = RagLoaded
    /\ alarm = "off"
    /\ cancelled = 0
    /\ active = {}
    /\ pending = EmptyDict
    /\ step = 0
    /\ reply = NoReply
    /\ calls = EmptyDict
    /\ writes = [k \in ExclusiveFields |-> 0]
    /\ merged = {}
    /\ sup_in = LLMInitFail
    /\ sup_out = NoResult
    /\ price_in \in PriceInputs
    /\ price_out = NoPrice
    /\ rag_call = NoRagCall

PriceCall ==
    /\ pc = "validator"
    /\ ~price_out.done
    /\ \E x \in parse_price(price_in) :
          price_out' = [price_out EXCEPT !.done = TRUE, !.value = x]
    /\ UNCHANGED <<pipeline, sup_in, sup_out, price_in, rag_call>>

\* the validator is given the value it returned
PriceAgain ==
    /\ pc = "validator"
    /\ price_out.done
    /\ ~price_out.twice
    /\ \E y \in parse_price(price_out.value) :
          price_out' = [price_out EXCEPT !.twice = TRUE, !.again = y]
    /\ UNCHANGED <<pipeline, sup_in, sup_out, price_in, rag_call>>

NextPrice ==
    \/ PriceCall
    \/ PriceAgain

SpecPrice == InitPrice /\ [][NextPrice]_vars

-----------------------------------------------------------------------------
(* The retriever on its own: the global instance is constructed, start-up   *)
(* or the initialize entry point call initialize(), and query() and the     *)
(* query entry point are called at any time, before or after.               *)

MaxQueries == 2
MaxTopK    == 2

InitRag ==
    /\ pc = "retriever"
    /\ Requested
    /\ registry = Registry
    /\ env = AnyEnv
    /\ rag = RagNew
    /\ alarm = "off"
    /\ cancelled = 0
    /\ active = {}
    /\ pending = EmptyDict
    /\ step = 0
    /\ reply = NoReply
    /\ calls = EmptyDict
    /\ writes = [k \in ExclusiveFields |-> 0]
    /\ merged = {}
    /\ sup_in = LLMInitFail
    /\ sup_out = NoResult
    /\ price_in = JNull
    /\ price_out = NoPrice
    /\ rag_call = NoRagCall

RagUnchanged ==
    UNCHANGED <<pc, agg, active, pending, step, calls, writes, merged, request,
                registry, env, alarm, cancelled, sup_in, sup_out, price_in,
                price_out>>

Initialize ==
    /\ pc = "retriever"
    /\ \E outcome \in InitializeOutcomes, found \in SUBSET Docs :
          LET i == initialize(rag, outcome, found)
          IN  /\ rag' = i.rag
              /\ rag_call' = [op |-> "initialize", initialized |-> rag.initialized,
                              top_k |-> 0, search |-> outcome,
                              result |-> i.result]
    /\ UNCHANGED reply
    /\ RagUnchanged

Query ==
    /\ pc = "retriever"
    /\ rag.queries < MaxQueries
    /\ \E top_k \in 1..MaxTopK, search \in {"ok", "fails"} :
          rag_call' = [op |-> "query", initialized |-> rag.initialized,
                       top_k |-> top_k, search |-> search,
                       result |-> query(rag, top_k, search)]
    /\ rag' = [rag EXCEPT !.queries = @ + 1]
    /\ UNCHANGED reply
    /\ RagUnchanged

QueryRag ==
    /\ pc = "retriever"
    /\ rag.queries < MaxQueries
    /\ \E top_k \in 1..MaxTopK, search \in {"ok", "fails"} :
          /\ reply' = query_rag(rag, top_k, search)
          /\ rag_call' = [op |-> "query_rag", initialized |-> rag.initialized,
                          top_k |-> top_k, search |-> search,
                          result |-> query_rag_try(rag, top_k, search)]
    /\ rag' = [rag EXCEPT !.queries = IF rag.initialized THEN @ + 1 ELSE @]
    /\ RagUnchanged

NextRag ==
    \/ Initialize
    \/ Query
    \/ QueryRag

SpecRag == InitRag /\ [][NextRag]_vars

-----------------------------------------------------------------------------
(* Properties *)

\* the str is one of the markers the except clauses build: prefix, cause
IsFailureMarker(text, prefix) == Len(text) = 2 /\ text[1] = prefix

Causes == {ExcLLMInit, ExcLLMInvoke, ExcJSON, ExcYF}

\* the text field an analyst owns, the prefix of its marker, and the
\* structured fields it owns
TextField(n) == CASE n = "financial_agent" -> "financial_analysis"
                  [] n = "market_agent"    -> "market_analysis"
                  [] n = "valuation_agent" -> "valuation_analysis"
MarkerPrefix(n) == CASE n = "financial_agent" -> "FIN_FAILED: "
                     [] n = "market_agent"    -> "MKT_FAILED: "
                     [] n = "valuation_agent" -> "VAL_FAILED: "
StructuredFields(n) == CASE n = "financial_agent" -> {}
                         [] n = "market_agent"    -> {"market_data"}
                         [] n = "valuation_agent" -> {"valuation_data"}

RecommendationFields == {"score", "recommendation", "target_price", "stop_loss",
                         "reasoning", "risks", "opportunities"}

\* C1: the supervisor never runs, and final_recommendation is never written,
\* before the financial, market and valuation nodes have all completed and
\* their updates have been merged.
C1_SupervisorAfterAllAnalysts ==
    /\ "supervisor" \in active => Analysts \subseteq merged
    /\ writes["final_recommendation"] > 0 => Analysts \subseteq merged

\* C2: during one run every exclusive field is written at most once, and
\* final_recommendation has been written exactly once when the run ends.
C2_ExclusiveFieldsWrittenOnce ==
    /\ \A k \in ExclusiveFields : writes[k] <= 1
    /\ pc \in {"returned", "done"} => writes["final_recommendation"] = 1

C4_AlwaysCompleteResponse ==
    pc = "done" =>
        /\ reply.status = 200
        /\ \A k \in {"financial_analysis", "market_analysis",
                     "valuation_analysis", "recommendation", "score"} :
              reply.body[k].t # "null"

\* every collaborator call of the run failed (for the supervisor: its last)
AllCallsFailed ==
    /\ DOMAIN calls = Nodes
    /\ \A n \in Nodes : calls[n].llm.kind # "ok"
    /\ \A n \in Analysts : calls[n].fetch # "ok"

\* C5: when every collaborator call fails the pipeline still answers 200:
\* the three analyses are failure markers and the recommendation is the
\* neutral default (HOLD, score 5) with all seven recommendation fields in
\* the response (target_price and stop_loss are null).
C5_TotalFailureStillResponds ==
    (pc = "done" /\ AllCallsFailed) =>
        /\ reply.status = 200
        /\ \A n \in Analysts :
              IsFailureMarker(reply.body[TextField(n)].s, MarkerPrefix(n))
        /\ reply.body.recommendation = JStr(<<"HOLD">>)
        /\ reply.body.score = JNum(5 * Scale)
        /\ RecommendationFields \subseteq DOMAIN reply.body
        /\ reply.body.reasoning.t = "str"
        /\ reply.body.risks.t = "list"
        /\ reply.body.opportunities.t = "list"
        /\ reply.body.target_price = JNull
        /\ reply.body.stop_loss = JNull

\* C6: if the market data collaborator fails while generation works,
\* market_analysis is a failure marker that references the ticker, not
\* generated text.
C6_MarketFetchFailureMarked ==
    ( /\ "market_agent" \in merged
      /\ calls["market_agent"].fetch # "ok"
      /\ calls["market_agent"].llm.kind = "ok" ) =>
        /\ IsFailureMarker(agg.market_analysis, "MKT_FAILED: ")
        /\ \E i \in 1..Len(agg.market_analysis) :
              agg.market_analysis[i] = agg.stock_ticker

\* C7: a degraded update of an analyst carries a marker naming the ticker
\* and the cause, and empty structured fields; and whenever the data fetch
\* has failed the structured field handed to the merge is the empty mapping.
C7_DegradedUpdateShape ==
    \A n \in DOMAIN pending \cap Analysts :
        LET u == pending[n].update
        IN  /\ calls[n].llm.kind # "ok" =>
                /\ IsFailureMarker(u[TextField(n)], MarkerPrefix(n))
                /\ u[TextField(n)][2] \in Causes
                /\ \E i \in 1..Len(u[TextField(n)]) :
                      u[TextField(n)][i] = agg.stock_ticker
                /\ \A k \in StructuredFields(n) : u[k] = EmptyDict
            /\ calls[n].fetch # "ok" =>
                \A k \in StructuredFields(n) : u[k] = EmptyDict

\* the recommendation the supervisor call of the harness gave back
SupRec == sup_out.result.update["final_recommendation"]

\* the generated text holds neither an opening nor a closing brace
NoDelimiters(text) == Positions(text, "{") = {} /\ Positions(text, "}") = {}

\* the generated text holds a span from a "{" to a later "}" that is not
\* one well-formed object
UnparsableSpan(text) ==
    /\ \E i, j \in 1..Len(text) : i < j /\ text[i] = "{" /\ text[j] = "}"
    /\ ~json_valid(group(text, json_match(text)))

\* the supervisor call took one of its fallbacks: generation failed, no
\* span was found, or the span did not parse
Fallback ==
    /\ sup_out.done
    /\ \/ sup_in.kind # "ok"
       \/ ~json_match(sup_in.text).found
       \/ UnparsableSpan(sup_in.text)

\* C8: when the generated text contains no object delimiters,
\* final_recommendation is the neutral default (HOLD, score 5) and its
\* reasoning is the full raw text.
C8_NoDelimiterFallback ==
    (sup_out.done /\ sup_in.kind = "ok" /\ NoDelimiters(sup_in.text)) =>
        /\ ~sup_out.result.raised
        /\ SupRec.recommendation = JStr(<<"HOLD">>)
        /\ SupRec.score = JNum(5 * Scale)
        /\ SupRec.reasoning = JStr(sup_in.text)

\* C8 witness: the node has answered a text of several words of prose.
C8_Witness ==
    /\ sup_out.done
    /\ sup_in = LLMText(<<"w", "w", "w">>)
    /\ SupRec.reasoning = JStr(<<"w", "w", "w">>)

\* C9: when the text contains delimiters but the located span fails to
\* parse, final_recommendation is the same fallback as without delimiters:
\* HOLD, score 5, reasoning equal to the full raw text.
C9_ParseErrorFallback ==
    (sup_out.done /\ sup_in.kind = "ok" /\ UnparsableSpan(sup_in.text)) =>
        /\ SupRec.recommendation = JStr(<<"HOLD">>)
        /\ SupRec.score = JNum(5 * Scale)
        /\ SupRec.reasoning = JStr(sup_in.text)

\* C10: in every fallback recommendation both risks and opportunities are
\* empty sequences.
C10_FallbackListsEmpty ==
    Fallback => /\ SupRec.risks = JList(<< >>)
                /\ SupRec.opportunities = JList(<< >>)

\* C10 as amended: in every fallback recommendation opportunities is the
\* empty sequence and risks holds exactly one marker string: PARSE_FAILED
\* when no span was found, ANALYSIS_FAILED after a parse error or a
\* generation failure.
C10_FallbackListsAmended ==
    Fallback =>
        /\ SupRec.opportunities = JList(<< >>)
        /\ SupRec.risks =
              IF sup_in.kind = "ok" /\ ~json_match(sup_in.text).found
              THEN JList(<<"PARSE_FAILED">>)
              ELSE JList(<<"ANALYSIS_FAILED">>)

\* C10 witness: the node has answered a text whose span does not parse.
C10_Witness ==
    /\ Fallback
    /\ sup_in = LLMText(<<"{", "w", "}">>)
    /\ SupRec.risks = JList(<<"ANALYSIS_FAILED">>)

\* braces opened minus braces closed over the positions i..k of the text
Depth(text, i, k) ==
    Cardinality({m \in i..k : text[m] = "{"})
        - Cardinality({m \in i..k : text[m] = "}"})

\* the positions at which the brace opened at i could be closed: the first
\* of them is its matching closing brace
ClosesOf(text, i) == {k \in i..Len(text) : Depth(text, i, k) = 0}

\* C11: the span handed to the parser starts at the first "{" and ends at
\* its matching "}", so it is balanced; for a text made of prose, one
\* well-formed object and more prose (which may hold a brace or a second
\* object) final_recommendation is exactly the fields of the first object.
C11_BalancedSpanExtracted ==
    (sup_out.done /\ sup_in.kind = "ok" /\ Positions(sup_in.text, "{") # {}) =>
        LET text  == sup_in.text
            first == Min(Positions(text, "{"))
        IN  ClosesOf(text, first) # {} =>
              LET object == SubSeq(text, first, Min(ClosesOf(text, first)))
              IN  /\ group(text, json_match(text)) = object
                  /\ json_valid(object) => SupRec = json_loads(object)

\* the numbers the validator extracts from a text, as fractions
NumbersOf(text) ==
    LET numbers == findall(cleaned(text), 1)
    IN  [i \in 1..Len(numbers) |-> FloatOf(numbers[i])]

\* x hundredths is a nearest hundredth to the mean of the fractions nums
NearestToMean(x, nums) ==
    LET den   == Max({nums[i].den : i \in 1..Len(nums)})
        total == SumOver(nums, den) * Scale
        by    == den * Len(nums)
        diff  == x * by - total
    IN  -by <= 2 * diff /\ 2 * diff <= by

\* C12: for a text price from which one or more numbers are extracted after
\* the currency marks are stripped, the normalized value is the arithmetic
\* mean of those numbers rounded to 2 decimals: "270-285 mei yuan" gives
\* 277.50, "$280" gives 280.00, a text with a separator such as "5,775" is
\* the mean of the numbers on both sides of it, and a decimal point is read
\* as part of its number.
C12_MeanOfExtractedNumbers ==
    (price_out.done /\ price_in.t = "str" /\ NumbersOf(price_in.s) # << >>) =>
        /\ price_out.value.t = "num"
        /\ NearestToMean(price_out.value.n, NumbersOf(price_in.s))
        /\ price_in.s = PriceRange  => price_out.value.n = 27750
        /\ price_in.s = DollarPrice => price_out.value.n = 28000
        /\ price_in.s = <<"5", ",", "7", "7", "5">> => price_out.value.n = 39000
        /\ price_in.s = <<"5", ".", "7", "5">> => price_out.value.n = 575
        /\ price_in.s = <<"5", ".", "5", "5", "7">> => price_out.value.n = 556

\* C12 witness: the validator has answered the range of the docstring.
C12_Witness ==
    /\ price_out.done
    /\ price_in = JStr(PriceRange)
    /\ price_out.value = JNum(27750)

\* C13: a text price without any digit comes back verbatim, a numeric price
\* comes back as the same number, and a missing price stays missing.
C13_OtherPricesUnchanged ==
    price_out.done =>
        /\ ( /\ price_in.t = "str"
             /\ \A i \in 1..Len(price_in.s) : price_in.s[i] \notin DigitSet )
               => price_out.value = price_in
        /\ price_in.t = "num"  => price_out.value = price_in
        /\ price_in.t = "null" => price_out.value = JNull

\* C13 witness: the validator has answered a text made of a currency sign
\* and a letter.
C13_Witness ==
    /\ price_out.done
    /\ price_in = JStr(<<"$", "x">>)
    /\ price_out.value = JStr(<<"$", "x">>)

\* C14: the declared topology resolves to the strictly sequential order
\* financial, market, valuation, supervisor: no two nodes are ever active
\* in the same step, and each node runs when exactly its predecessors have
\* completed.
C14_StrictSequentialOrder ==
    /\ Cardinality(active) <= 1
    /\ "financial_agent" \in active => merged = {}
    /\ "market_agent" \in active => merged = {"financial_agent"}
    /\ "valuation_agent" \in active =>
           merged = {"financial_agent", "market_agent"}
    /\ "supervisor" \in active => merged = Analysts

Overlaid(state, u) ==
    [k \in DOMAIN state |-> IF k \in DOMAIN u THEN u[k] ELSE state[k]]

\* the recommendation of the run in which the doubles of e answer the
\* request req and the four nodes run one after the other
SequentialRec(e, req) ==
    LET Step(state, n) ==
            Overlaid(state, Call(Registry[n], state, e.fetch[n],
                                 generate(e.gen[n])).update)
        s0 == initial_state(req.stock_ticker, req.query)
        s1 == Step(s0, "financial_agent")
        s2 == Step(s1, "market_agent")
        s3 == Step(s2, "valuation_agent")
    IN  supervisor_agent_node(s3, generate(e.sup[SupKey(s3)]))
            .update["final_recommendation"]

\* C16: with the collaborators replaced by doubles that give identical
\* answers, the final_recommendation of a finished run is determined by the
\* request and those answers alone, so two runs on the same request agree
\* whatever the order in which the steps of the executor interleave.
C16_MockedRunsAgree ==
    /\ pc # "raised"
    /\ pc \in {"returned", "done"} =>
           agg.final_recommendation = SequentialRec(env, request)

\* C16 witness: a finished run in which the supervisor double answers the
\* prompt built from all three analyses differently from the earlier ones.
C16_Witness ==
    /\ pc = "done"
    /\ env.sup[1] = GenText(<<"w">>)
    /\ env.sup[2] = GenInvokeFail
    /\ env.sup[3] = GenText(GoodText)
    /\ agg.final_recommendation = json_loads(SubSeq(GoodText, 2, 7))

\* C17: with max_retries = 3 a generation call whose first two requests fail
\* and whose third succeeds yields the generated text; a call whose four
\* requests all fail surfaces one error, which the node turns into its
\* degraded update, and the pipeline goes on with the next node.
C17_RetriesThenDegrade ==
    /\ pc # "raised"
    /\ \A n \in DOMAIN pending :
          LET u == pending[n].update
          IN  /\ calls[n].fails = 2 =>
                    /\ calls[n].llm.kind = "ok"
                    /\ n \in Analysts => u[TextField(n)] = <<"analysis">>
                    /\ n = "supervisor" =>
                           u["final_recommendation"]
                               = json_loads(SubSeq(GoodText, 2, 7))
              /\ calls[n].fails = 4 =>
                    /\ calls[n].llm = LLMInvokeFail
                    /\ ~pending[n].raised
                    /\ n \in Analysts =>
                           u[TextField(n)] = <<MarkerPrefix(n), ExcLLMInvoke>>
                    /\ n = "supervisor" =>
                           u["final_recommendation"]
                               = except_recommendation(ExcLLMInvoke)
    /\ \A n \in merged : Triggered({n}) \subseteq active \cup merged

\* C17 witness: the financial call succeeded at its third request, the
\* market call failed four times, its marker was merged and valuation_agent
\* is scheduled.
C17_Witness ==
    /\ "market_agent" \in merged
    /\ calls["financial_agent"].fails = 2
    /\ agg.financial_analysis = <<"analysis">>
    /\ calls["market_agent"].fails = 4
    /\ agg.market_analysis = <<"MKT_FAILED: ", ExcLLMInvoke>>
    /\ "valuation_agent" \in active

\* the fields each node owns
Owned(n) == CASE n = "financial_agent" -> {"financial_analysis", "rag_context"}
              [] n = "market_agent"    -> {"market_analysis", "market_data"}
              [] n = "valuation_agent" -> {"valuation_analysis", "valuation_data"}
              [] n = "supervisor"      -> {"final_recommendation"}

\* C18: on every return path the partial update of a node holds only fields
\* the node owns, and the ownership sets of the four nodes are pairwise
\* disjoint, so every exclusive field has exactly one writer.
C18_UpdatesWithinOwnership ==
    /\ \A n \in DOMAIN pending :
          /\ ~pending[n].raised
          /\ DOMAIN pending[n].update # {}
          /\ DOMAIN pending[n].update \subseteq Owned(n)
    /\ \A n1, n2 \in Nodes : n1 # n2 => Owned(n1) \cap Owned(n2) = {}
    /\ \A k \in ExclusiveFields :
          Cardinality({n \in Nodes : k \in Owned(n)}) = 1

\* C18 witness: in one superstep the market node returned from its except
\* clause and the supervisor from its parsed path.
C18_Witness ==
    /\ {"market_agent", "supervisor"} \subseteq DOMAIN pending
    /\ calls["market_agent"].llm = LLMInvokeFail
    /\ DOMAIN pending["market_agent"].update = Owned("market_agent")
    /\ calls["supervisor"].llm = LLMText(GoodText)
    /\ DOMAIN pending["supervisor"].update = Owned("supervisor")

\* C19: the fields no node owns keep their initial values in every
\* reachable state: stock_ticker and query are those of the request,
\* messages is empty, next_agent is "" and iteration_count is 0.
C19_UnownedFieldsKeepInitialValues ==
    /\ agg.stock_ticker = request.stock_ticker
    /\ agg.query = request.query
    /\ agg.messages = << >>
    /\ agg.next_agent = EmptyStr
    /\ agg.iteration_count = 0

\* C19 witness: a run has ended after all four nodes wrote their fields.
C19_Witness ==
    /\ pc = "returned"
    /\ merged = Nodes
    /\ \A k \in ExclusiveFields \ {"rag_context"} : writes[k] > 0
    /\ agg.stock_ticker = "0700.HK"
    /\ agg.iteration_count = 0

\* C20: get_financial_data, get_market_data and calculate_valuation never
\* raise: every failure comes back as a mapping that holds an 'error' entry
\* together with success = False.
C20_DataFailuresCarryErrorEntry ==
    \A n \in DOMAIN calls \cap Analysts :
        calls[n].fetch # "ok" =>
            /\ "error" \in DOMAIN calls[n].data
            /\ "success" \in DOMAIN calls[n].data
            /\ calls[n].data["success"] = "False"

\* C21: the financial node calls the retrieval collaborator before its
\* generation call, and on its success path the rag_context it writes is
\* the context retrieval returned: when the retriever holds documents,
\* rag_context in the aggregate is not empty.
C21_RagContextFromRetrieval ==
    ( /\ "financial_agent" \in merged
      /\ calls["financial_agent"].llm.kind = "ok"
      /\ rag.initialized
      /\ rag.docs # {} ) =>
        /\ rag.queries > 0
        /\ agg.rag_context # EmptyStr

\* C22: every final_recommendation merged into the aggregate has a score
\* that is a number between 1 and 10 inclusive, whatever text the
\* generation call returned.
C22_MergedScoreInRange ==
    writes["final_recommendation"] > 0 =>
        /\ "score" \in DOMAIN agg.final_recommendation
        /\ agg.final_recommendation["score"].t = "num"
        /\ ScoreMin * Scale <= agg.final_recommendation["score"].n
        /\ agg.final_recommendation["score"].n <= ScoreMax * Scale

\* C28: the alarm armed in _fetch_yfinance_data is disarmed before the
\* function returns, on every path: once the financial node has handed its
\* update to the executor no alarm is pending, so none is pending when a
\* later step of the request runs.
C28_AlarmDisarmedOnReturn ==
    ("financial_agent" \in DOMAIN pending \/ "financial_agent" \in merged) =>
        alarm = "off"

\* C23: every run in which each collaborator call returns or fails ends at
\* the terminal marker after the supervisor has run and hands back the
\* aggregate; nothing is active or pending once the run has ended.
C23_RunReachesEndAndReturns ==
    /\ <>(pc = "returned" /\ "supervisor" \in merged)
    /\ [](pc = "returned" => active = {} /\ pending = EmptyDict)

\* C24: once the request has been cancelled no node that had not started is
\* started: the nodes that run are those of the step at which the signal
\* arrived, and the run ends with the aggregate built up to that step.
C24_NoNodeStartsAfterCancel ==
    /\ (cancelled # 0 /\ pending # EmptyDict) => step = cancelled
    /\ (cancelled # 0 /\ pc = "returned") => step <= cancelled + 1

\* C25: a request served after another one in the same process gets a fresh
\* aggregate and nothing in its run depends on the earlier request: a node
\* whose own collaborators answered writes its success update, the run does
\* not raise, and the response is the 200 response for the request's ticker.
C25_RequestsIsolated ==
    /\ agg.stock_ticker = request.stock_ticker
    /\ pc # "raised"
    /\ \A n \in DOMAIN calls : calls[n].llm.kind # "alarm"
    /\ pc = "done" =>
           /\ reply.status = 200
           /\ reply.body["stock_ticker"] = JStr(<<request.stock_ticker>>)

\* C26: a single-node entry point runs its own node and no other, once, on
\* the empty state of the ticker, and for every behaviour of the
\* collaborators it answers 200 with the ticker, the analysis and the other
\* field the node owns, never with a failed request.
C26_SingleNodeEntryPoints ==
    /\ DOMAIN calls \subseteq active
    /\ DOMAIN pending \subseteq active
    /\ pc # "raised"
    /\ pc = "done" =>
           /\ reply.status = 200
           /\ reply.body.stock_ticker = request.stock_ticker
           /\ \A n \in active :
                 /\ DOMAIN reply.body \ {"stock_ticker", "analysis"}
                        \subseteq Owned(n)
                 /\ reply.body.analysis = pending[n].update[TextField(n)]

\* C27: once initialize() has set the retriever up, query() returns a list,
\* empty when the similarity search failed, for every input, and it raises
\* only while the retriever has never been initialized.
C27_QueryNeverRaisesOnceInitialized ==
    rag_call.op = "query" =>
        /\ rag_call.result.raised <=> ~rag_call.initialized
        /\ rag_call.result.raised => rag_call.result.exc = "RuntimeError"
        /\ (rag_call.initialized /\ rag_call.search = "fails") =>
               rag_call.result = Return(<< >>)
        /\ rag_call.initialized => Len(rag_call.result.update) <= rag_call.top_k

\* C27 witness: the similarity search of an initialized retriever that holds
\* chunks failed and query() returned the empty list.
C27_Witness ==
    /\ rag_call.op = "query"
    /\ rag_call.initialized
    /\ rag.docs = Docs
    /\ rag_call.search = "fails"
    /\ rag_call.result = Return(<< >>)

\* C29: query_rag answers 503 when the retriever is not initialized and 500
\* only when the query itself failed.
C29_UninitializedIs503 ==
    rag_call.op = "query_rag" =>
        /\ ~rag_call.initialized => reply.status = 503
        /\ reply.status = 500 => rag_call.initialized

\* C30: parse_price is idempotent: for a missing value, a number and every
\* text, the validator applied to the value it returned returns that value.
C30_ParsePriceIdempotent ==
    price_out.twice => price_out.again = price_out.value

\* C30 witness: the price range of the docstring was parsed to its mean and
\* the mean, validated again, came back as the same number.
C30_Witness ==
    /\ price_out.twice
    /\ price_in = JStr(PriceRange)
    /\ price_out.again = JNum(27750)

====
